---- MODULE Spec2Model ----
(***************************************************************************)
(* The Brain server of bgm-controller (src/src/main.rs): the HTTP ingress  *)
(* handlers, the tokio broadcast channel they publish on, the WebSocket    *)
(* sessions (handle_socket with its send_task and recv_task) and the       *)
(* shared AppState (tabs, results) behind its two mutexes.                 *)
(***************************************************************************)
EXTENDS Integers, Sequences, FiniteSets, TLC

\* ------------------------------------------------------------------ bounds
\* Messages the broadcast channel retains (100 in main.rs:170), checked at a small value.
BusCapacity == 2
\* Limit of the result history (100 in main.rs:132), checked at a small value.
ResultsCap == 2
\* Number of WebSocket connections that are ever upgraded.
MaxSessions == 2
\* Number of frames that are ever put on the stream of the frame codec.
MaxFrames == 2
\* Number of `start` commands that are ever run on the one port.
MaxInstances == 2

Sessions == 1..MaxSessions
NoTask == 0
NoLocals == [kind |-> "none"]

Instances == 1..MaxInstances
\* Holders of the port besides the instances: nobody, and a process that is
\* not a Brain.
Nobody == 0
Stranger == MaxInstances + 1

\* ------------------------------------------------------------- JSON values
\* serde_json::Value: scalars are tagged, objects are records, arrays are
\* tagged sequences.
JStr(s) == [str |-> s]
JNum(n) == [num |-> n]
JBool(b) == [bool |-> b]
JNull == [null |-> TRUE]
JArr(a) == [arr |-> a]

IsStr(v) == DOMAIN v = {"str"}
IsNum(v) == DOMAIN v = {"num"}
IsNull(v) == DOMAIN v = {"null"}
IsArr(v) == DOMAIN v = {"arr"}
IsScalar(v) == IsStr(v) \/ IsNum(v) \/ IsNull(v) \/ DOMAIN v = {"bool"}
IsObject(v) == ~IsScalar(v) /\ ~IsArr(v)

\* Value::get(key): Some(value) for an object that has the key.
Has(v, k) == IsObject(v) /\ k \in DOMAIN v

I32 == (-2147483647 - 1)..2147483647

\* ------------------------------------------------------------ state.rs
\* Deserialize for Option<i32> / Option<String> fields of TabInfo.
OptI32Ok(o, k) == ~Has(o, k) \/ IsNull(o[k]) \/ (IsNum(o[k]) /\ o[k].num \in I32)
OptStringOk(o, k) == ~Has(o, k) \/ IsNull(o[k]) \/ IsStr(o[k])
OptField(o, k) == IF Has(o, k) THEN o[k] ELSE JNull

\* The derived visitor's visit_map: unknown fields are ignored, absent
\* Option fields become None (serialized back as null).
TabInfoMapOk(o) ==
    /\ IsObject(o)
    /\ OptI32Ok(o, "id")
    /\ OptStringOk(o, "url")
    /\ OptStringOk(o, "title")

\* The derived visitor's visit_seq, which Value::deserialize_struct calls for
\* an array: the fields in declaration order, none missing, none left over.
TabInfoSeqOk(o) ==
    /\ IsArr(o)
    /\ Len(o.arr) = 3
    /\ IsNull(o.arr[1]) \/ (IsNum(o.arr[1]) /\ o.arr[1].num \in I32)
    /\ IsNull(o.arr[2]) \/ IsStr(o.arr[2])
    /\ IsNull(o.arr[3]) \/ IsStr(o.arr[3])

\* serde_json::from_value::<TabInfo>: Ok for an object and for an array.
TabInfoOk(o) == TabInfoMapOk(o) \/ TabInfoSeqOk(o)

TabInfo(o) ==
    IF IsArr(o)
      THEN [id |-> o.arr[1], url |-> o.arr[2], title |-> o.arr[3]]
      ELSE [id |-> OptField(o, "id"), url |-> OptField(o, "url"), title |-> OptField(o, "title")]

\* serde_json::from_value::<Vec<TabInfo>>(tabs_val): Ok or Err.
VecTabInfoOk(v) == IsArr(v) /\ \A i \in DOMAIN v.arr : TabInfoOk(v.arr[i])
VecTabInfo(v) == [i \in DOMAIN v.arr |-> TabInfo(v.arr[i])]

\* Json<InjectRequest>: both fields are required, script must be a string.
InjectRequestOk(body) == Has(body, "tabId") /\ Has(body, "script") /\ IsStr(body.script)

\* ------------------------------------------------------------------ inputs
\* Request bodies posted to /inject.
InjectBodies ==
    { [tabId |-> JNum(5), script |-> JStr("alert(1)")],
      [tabId |-> JNum(5)],
      [script |-> JStr("alert(1)")] }

\* Request bodies posted to /navigate: by the Navigate and Click subcommands
\* (main.rs:195-198, 213-218) and by other HTTP clients.
NavigateBodies ==
    { [url |-> JStr("https://a.example"), tab_id |-> JStr("7")],
      [type |-> JStr("click"), selector |-> JStr("#go"), tab_id |-> JStr("active")],
      [type |-> JStr("click")] }

\* Text frames sent by a WebSocket client: a JSON document or bytes that do
\* not parse.
Doc(v) == [json |-> v]
Garbage == [garbage |-> "{oops"]

TabsReports ==
    { [type |-> JStr("tabs"),
       tabs |-> JArr(<<[id |-> JNum(1), url |-> JStr("u1"), title |-> JStr("t1")]>>)],
      [type |-> JStr("tabs"),
       tabs |-> JArr(<<[id |-> JNum(2), url |-> JStr("u2"), active |-> JBool(TRUE)]>>)] }

\* A tabs report whose entry is written as a list [id, url, title].
SeqTabsReports ==
    { [type |-> JStr("tabs"),
       tabs |-> JArr(<<JArr(<<JNum(3), JStr("u3"), JStr("t3")>>)>>)] }

BadTabsReports ==
    { [type |-> JStr("tabs")],
      [type |-> JStr("tabs"), tabs |-> JStr("oops")],
      [type |-> JStr("tabs"), tabs |-> JArr(<<[id |-> JStr("x")]>>)] }

ResultReports ==
    { [type |-> JStr("injection_result"), tabId |-> JNum(5), ok |-> JBool(TRUE)],
      [type |-> JStr("html_result"), tabId |-> JNum(5)],
      [type |-> JStr("capture_result"), tabId |-> JNum(5)] }

OtherReports ==
    { [type |-> JStr("audit_log"), entry |-> JStr("e")],
      [type |-> JStr("unknown_xyz")],
      [type |-> JNum(7)],
      [note |-> JStr("no type")] }

Texts == {Doc(v) : v \in TabsReports \cup SeqTabsReports \cup BadTabsReports
                            \cup ResultReports \cup OtherReports}
            \cup {Garbage}

\* Items of the WebSocket stream (receiver.next()): Some(Ok(Message::Text)),
\* another message or an error ("binary"), and None ("end").
Frames == {[kind |-> "text", text |-> t] : t \in Texts}
            \cup {[kind |-> "binary"], [kind |-> "end"]}

\* serde_json::from_str::<Value>(&text)
FromStrOk(text) == "json" \in DOMAIN text

\* ------------------------------------------------------------------- state
VARIABLES
    tabs,          \* AppState.tabs: Vec<TabInfo>
    results,       \* AppState.results: Vec<Value>
    tabsLock,      \* holder of the tabs mutex guard (a session's recv_task) or NoTask
    resultsLock,   \* holder of the results mutex guard or NoTask
    buffer,        \* broadcast channel: retained slots [pos, val], oldest first
    tail,          \* broadcast channel: position of the next message sent
    hs,            \* handle_socket of a session: "none", "select", "done"
    sendSt,        \* send_task: "none", "running", "aborting", "finished", "cancelled"
    recvSt,        \* recv_task: "none", "running", "aborting", "finished", "cancelled"
    rpc,           \* recv_task position: "wait", "tabs_log", "results_log"
    next,          \* rx.next: position of the next message the receiver reads
    out,           \* slots a session's send_task wrote to its socket, in order
    http,          \* the last HTTP exchange: endpoint, body, status, response
    lastIn,        \* history: the last item a recv_task took from its stream
    published,     \* history: every accepted send with the receivers attached then
    sendCalls,     \* history: number of tx.send calls
    resultLog,     \* history: every result record pushed, with the pushing session
    lastReport,    \* history: the tabs payload of the last tabs report applied
    tabsAtOpen,    \* history: the tab list when the session subscribed
    postLeft,      \* POST requests still to come
    readLeft,      \* GET requests still to come
    inLeft,        \* WebSocket stream items still to come
    openLeft       \* WebSocket upgrades still to come

VARIABLES
    loc,           \* recv_task locals while it is inside the loop body: msg and the length push read
    reported       \* history: every result record a recv_task took from its stream, with the session

VARIABLES
    wire,          \* the byte stream between write_message and read_message: bytes not yet read
    wireEof,       \* the writing end of the stream is closed
    onWire,        \* history: what was put on the stream, in order
    got,           \* history: what each read_message call returned
    endian         \* byte order of the build target

VARIABLES
    startPc,       \* main of an instance: "none", "probe", "probing", "conflict", "setup",
                   \* "bind", "serving", "exit1" (process::exit(1)), "failed" (main returned Err)
    made,          \* an instance has created its broadcast channel and its AppState
    probed,        \* history: what the instance's probe found, "none", "free" or "bound"
    listening      \* who holds the listening socket of 127.0.0.1:port

storeVars == <<tabs, results, tabsLock, resultsLock>>
busVars == <<buffer, tail>>
sessVars == <<hs, sendSt, recvSt, rpc, next, out>>
histVars == <<published, sendCalls, resultLog, lastReport, tabsAtOpen, lastIn>>
vars == <<tabs, results, tabsLock, resultsLock, buffer, tail, hs, sendSt, recvSt, rpc,
          next, out, http, published, sendCalls, resultLog, lastReport,
          tabsAtOpen, lastIn, postLeft, readLeft, inLeft, openLeft,
          loc, reported, wire, wireEof, onWire, got, endian,
          startPc, made, probed, listening>>

codecVars == <<wire, wireEof, onWire, got, endian>>

serverVars == <<storeVars, busVars, sessVars, http, histVars, postLeft, readLeft, inLeft,
                openLeft, loc, reported>>

startVars == <<startPc, made, probed, listening>>

\* The state outside the server.
otherVars == <<codecVars, startVars>>

\* What the handlers and tasks of the coarse-grained actions below never touch.
auxVars == <<loc, reported, otherVars>>

\* ------------------------------------------------------ broadcast channel

MaxPosts == BusCapacity + 1
MaxItems == ResultsCap + 1

\* A task that still runs its future: spawned and neither completed nor
\* dropped by a cancellation ("aborting": abort() was called, the task has
\* not yielded since).
Alive(st) == st \in {"running", "aborting"}

\* Receivers alive: rx is owned by send_task and dropped when it ends.
Receivers == {s \in Sessions : Alive(sendSt[s])}

\* Position of the oldest retained slot.
Oldest == tail - Len(buffer)

Retain(b) == IF Len(b) > BusCapacity THEN Tail(b) ELSE b

\* A send that waits for the slowest receiver, as a bounded queue would.
BusSendBounded(msg) ==
    /\ \A s \in Receivers : tail - next[s] < BusCapacity
    /\ sendCalls' = sendCalls + 1
    /\ IF Receivers = {}
         THEN UNCHANGED <<buffer, tail, published>>
         ELSE /\ buffer' = Retain(Append(buffer, [pos |-> tail, val |-> msg]))
              /\ tail' = tail + 1
              /\ published' = Append(published, [val |-> msg, subs |-> Receivers])

\* tx.send(msg): Err (nothing stored) when no receiver is attached, otherwise
\* the message takes position tail and overwrites the oldest slot of a full
\* buffer.  It never waits for a receiver.
BusSend(msg) ==
    /\ sendCalls' = sendCalls + 1
    /\ IF Receivers = {}
         THEN UNCHANGED <<buffer, tail, published>>
         ELSE /\ buffer' = Retain(Append(buffer, [pos |-> tail, val |-> msg]))
              /\ tail' = tail + 1
              /\ published' = Append(published, [val |-> msg, subs |-> Receivers])

\* A subscription that replays what the channel still retains.
SubscribeReplay == Oldest

\* tx.subscribe(): the new receiver starts at the tail.
Subscribe == tail

\* ---------------------------------------------------------- HTTP handlers
InjectMsgSwapped(payload) ==
    [type |-> JStr("inject"), tabId |-> payload.script, script |-> payload.tabId]

InjectMsg(payload) ==
    [type |-> JStr("inject"), tabId |-> payload.tabId, script |-> payload.script]

\* A navigate message that keeps the type field of the request body.
NavigateMsgKeepType(payload) ==
    [type |-> IF Has(payload, "type") THEN payload.type ELSE JStr("navigate"),
     tabId |-> IF Has(payload, "tab_id") THEN payload.tab_id ELSE JStr("active"),
     url |-> IF Has(payload, "url") THEN payload.url ELSE JStr("https://google.com")]

\* A navigate message whose absent fields are passed on as null.
NavigateMsgNoDefault(payload) ==
    [type |-> JStr("navigate"), tabId |-> OptField(payload, "tab_id"),
     url |-> OptField(payload, "url")]

NavigateMsg(payload) ==
    [type |-> JStr("navigate"),
     tabId |-> IF Has(payload, "tab_id") THEN payload.tab_id ELSE JStr("active"),
     url |-> IF Has(payload, "url") THEN payload.url ELSE JStr("https://google.com")]

\* POST /inject.  The Json<InjectRequest> extractor rejects a body that does
\* not deserialize (422); the handler then does not run.
InjectHandler(body) ==
    /\ postLeft > 0
    /\ postLeft' = postLeft - 1
    /\ IF InjectRequestOk(body)
         THEN /\ BusSend(InjectMsg(body))
              /\ http' = [ep |-> "inject", body |-> body, status |-> 200, sent |-> TRUE,
                          resp |-> [status |-> JStr("sent")]]
         ELSE /\ UNCHANGED <<buffer, tail, published, sendCalls>>
              /\ http' = [ep |-> "inject", body |-> body, status |-> 422, sent |-> FALSE,
                          resp |-> [error |-> JStr("missing field")]]
    /\ UNCHANGED <<storeVars, sessVars, resultLog, lastReport, tabsAtOpen, lastIn,
                   readLeft, inLeft, openLeft>>
    /\ UNCHANGED auxVars

\* POST /navigate: any JSON body is accepted.
NavigateHandler(body) ==
    /\ postLeft > 0
    /\ postLeft' = postLeft - 1
    /\ BusSend(NavigateMsg(body))
    /\ http' = [ep |-> "navigate", body |-> body, status |-> 200, sent |-> TRUE,
                resp |-> [status |-> JStr("navigation_sent")]]
    /\ UNCHANGED <<storeVars, sessVars, resultLog, lastReport, tabsAtOpen, lastIn,
                   readLeft, inLeft, openLeft>>
    /\ UNCHANGED auxVars

\* GET /tabs: lock, serialize, unlock.
GetTabsHandler ==
    /\ tabsLock = NoTask
    /\ readLeft > 0
    /\ readLeft' = readLeft - 1
    /\ http' = [ep |-> "tabs", status |-> 200, resp |-> [tabs |-> tabs]]
    /\ UNCHANGED <<storeVars, busVars, sessVars, histVars, postLeft, inLeft, openLeft>>
    /\ UNCHANGED auxVars

\* A read of the history that does not wait for the lock.
ResultsHandlerUnlocked ==
    /\ readLeft > 0
    /\ readLeft' = readLeft - 1
    /\ http' = [ep |-> "results", status |-> 200, resp |-> [results |-> results]]
    /\ UNCHANGED <<storeVars, busVars, sessVars, histVars, postLeft, inLeft, openLeft>>
    /\ UNCHANGED auxVars

\* GET /results: lock, serialize, unlock.
ResultsHandler ==
    /\ resultsLock = NoTask
    /\ readLeft > 0
    /\ readLeft' = readLeft - 1
    /\ http' = [ep |-> "results", status |-> 200, resp |-> [results |-> results]]
    /\ UNCHANGED <<storeVars, busVars, sessVars, histVars, postLeft, inLeft, openLeft>>
    /\ UNCHANGED auxVars

\* ------------------------------------------------------ WebSocket sessions
\* handle_socket up to the select!: split the socket, subscribe, spawn both tasks.
WsOpen(s) ==
    /\ hs[s] = "none"
    /\ openLeft > 0
    /\ openLeft' = openLeft - 1
    /\ hs' = [hs EXCEPT ![s] = "select"]
    /\ next' = [next EXCEPT ![s] = Subscribe]
    /\ sendSt' = [sendSt EXCEPT ![s] = "running"]
    /\ recvSt' = [recvSt EXCEPT ![s] = "running"]
    /\ tabsAtOpen' = [tabsAtOpen EXCEPT ![s] = tabs]
    /\ UNCHANGED <<storeVars, busVars, rpc, out, http, published, sendCalls,
                   resultLog, lastReport, lastIn, postLeft, readLeft, inLeft>>
    /\ UNCHANGED auxVars

\* rx.recv() returned Err(RecvError::Lagged): the slot at rx.next was overwritten.
Lagged(s) == next[s] < Oldest

\* One turn of send_task's loop: rx.recv().await, to_string, sender.send().await.
\* `while let Ok(msg)` leaves the loop on any Err of recv, Lagged included;
\* a failed socket write breaks out of it.
SendTaskStep(s) ==
    /\ Alive(sendSt[s])
    /\ IF Lagged(s)
         THEN /\ next' = [next EXCEPT ![s] = Oldest]
              /\ sendSt' = [sendSt EXCEPT ![s] = "finished"]
              /\ UNCHANGED out
         ELSE /\ next[s] < tail
              /\ next' = [next EXCEPT ![s] = next[s] + 1]
              /\ \E written \in BOOLEAN :
                    IF written
                      THEN /\ out' = [out EXCEPT ![s] = Append(out[s], buffer[next[s] - Oldest + 1])]
                           /\ UNCHANGED sendSt
                      ELSE /\ sendSt' = [sendSt EXCEPT ![s] = "finished"]
                           /\ UNCHANGED out
    /\ UNCHANGED <<storeVars, busVars, hs, recvSt, rpc, http, histVars, postLeft,
                   readLeft, inLeft, openLeft>>
    /\ UNCHANGED auxVars

\* A report merged into the list instead of replacing it.
MergeTabs(old, new_tabs) == old \o new_tabs

\* *tabs = new_tabs
ReplaceTabs(old, new_tabs) == new_tabs

\* A push without the eviction.
PushResultUnbounded(rs, msg) == Append(rs, msg)

\* results.push(msg); if results.len() > 100 { results.remove(0); }
PushResult(rs, msg) ==
    LET pushed == Append(rs, msg)
    IN  IF Len(pushed) > ResultsCap THEN Tail(pushed) ELSE pushed

ResultTypes == {"injection_result", "html_result", "capture_result"}

\* A loop body whose last arm stores every message of another type as a result.
DispatchStoreUnknown(text) ==
    IF ~FromStrOk(text) THEN "skip"
    ELSE LET msg == text.json
         IN  IF ~(Has(msg, "type") /\ IsStr(msg.type)) THEN "skip"
             ELSE IF msg.type.str = "tabs"
                    THEN IF Has(msg, "tabs") /\ VecTabInfoOk(msg.tabs) THEN "tabs" ELSE "skip"
             ELSE "result"

\* What recv_task's loop body does with a text frame.
Dispatch(text) ==
    IF ~FromStrOk(text) THEN "skip"
    ELSE LET msg == text.json
         IN  IF ~(Has(msg, "type") /\ IsStr(msg.type)) THEN "skip"
             ELSE IF msg.type.str = "tabs"
                    THEN IF Has(msg, "tabs") /\ VecTabInfoOk(msg.tabs) THEN "tabs" ELSE "skip"
             ELSE IF msg.type.str \in ResultTypes THEN "result"
             ELSE "skip"

\* recv_task takes the next item of the stream at receiver.next().await and
\* runs the loop body up to the point where a mutex guard is held.
RecvTaskNext(s, item) ==
    /\ Alive(recvSt[s])
    /\ rpc[s] = "wait"
    /\ inLeft > 0
    /\ inLeft' = inLeft - 1
    /\ lastIn' = item
    /\ IF item.kind # "text"
         THEN /\ recvSt' = [recvSt EXCEPT ![s] = "finished"]
              /\ UNCHANGED <<storeVars, rpc, resultLog, lastReport>>
         ELSE /\ UNCHANGED recvSt
              /\ CASE Dispatch(item.text) = "tabs" ->
                        /\ tabsLock = NoTask
                        /\ tabsLock' = s
                        /\ tabs' = ReplaceTabs(tabs, VecTabInfo(item.text.json.tabs))
                        /\ lastReport' = item.text.json.tabs.arr
                        /\ rpc' = [rpc EXCEPT ![s] = "tabs_log"]
                        /\ UNCHANGED <<results, resultsLock, resultLog>>
                   [] Dispatch(item.text) = "result" ->
                        /\ resultsLock = NoTask
                        /\ resultsLock' = s
                        /\ results' = PushResult(results, item.text.json)
                        /\ resultLog' = Append(resultLog, [by |-> s, rec |-> item.text.json])
                        /\ rpc' = [rpc EXCEPT ![s] = "results_log"]
                        /\ UNCHANGED <<tabs, tabsLock, lastReport>>
                   [] OTHER ->
                        UNCHANGED <<storeVars, rpc, resultLog, lastReport>>
    /\ UNCHANGED <<busVars, hs, sendSt, next, out, http, published, sendCalls,
                   tabsAtOpen, postLeft, readLeft, openLeft>>
    /\ UNCHANGED auxVars

\* eprintln!("[BGM] Updated Tab List") with the tabs guard alive, then the
\* guard is dropped at the end of the block and the loop is back at its await.
LogTabs(s) ==
    /\ rpc[s] = "tabs_log"
    /\ tabsLock' = NoTask
    /\ rpc' = [rpc EXCEPT ![s] = "wait"]
    /\ UNCHANGED <<tabs, results, resultsLock, busVars, hs, sendSt, recvSt, next, out, http,
                   histVars, postLeft, readLeft, inLeft, openLeft>>
    /\ UNCHANGED auxVars

\* eprintln!("[BGM] Captured result: ..") with the results guard alive.
LogResult(s) ==
    /\ rpc[s] = "results_log"
    /\ resultsLock' = NoTask
    /\ rpc' = [rpc EXCEPT ![s] = "wait"]
    /\ UNCHANGED <<tabs, results, tabsLock, busVars, hs, sendSt, recvSt, next, out, http,
                   histVars, postLeft, readLeft, inLeft, openLeft>>
    /\ UNCHANGED auxVars

\* A select! arm that does not abort the other task.
NoAbortRecv(s) == recvSt[s]

\* JoinHandle::abort(): no effect on a completed task; otherwise the task is
\* marked and is dropped the next time it yields, which a task inside a poll
\* does only when one of its awaits is pending.
AbortRecv(s) == IF recvSt[s] = "running" THEN "aborting" ELSE recvSt[s]

\* A select! arm that leaves send_task running.
NoAbortSend(s) == sendSt[s]

AbortSend(s) == IF sendSt[s] = "running" THEN "aborting" ELSE sendSt[s]

\* The aborted send_task yields at rx.recv() or sender.send() and is dropped,
\* and rx with it.
SendTaskYield(s) ==
    /\ sendSt[s] = "aborting"
    /\ sendSt' = [sendSt EXCEPT ![s] = "cancelled"]
    /\ UNCHANGED <<storeVars, busVars, hs, recvSt, rpc, next, out, http, histVars, postLeft,
                   readLeft, inLeft, openLeft>>
    /\ UNCHANGED auxVars

\* The aborted recv_task yields at receiver.next() and is dropped.
RecvTaskYield(s) ==
    /\ recvSt[s] = "aborting"
    /\ rpc[s] = "wait"
    /\ recvSt' = [recvSt EXCEPT ![s] = "cancelled"]
    /\ UNCHANGED <<storeVars, busVars, hs, sendSt, rpc, next, out, http, histVars, postLeft,
                   readLeft, inLeft, openLeft>>
    /\ UNCHANGED auxVars

\* tokio::select! over the two join handles, then the disconnect diagnostic.
Select(s) ==
    /\ hs[s] = "select"
    /\ \/ /\ sendSt[s] = "finished"
          /\ recvSt' = [recvSt EXCEPT ![s] = AbortRecv(s)]
          /\ UNCHANGED sendSt
       \/ /\ recvSt[s] = "finished"
          /\ sendSt' = [sendSt EXCEPT ![s] = AbortSend(s)]
          /\ UNCHANGED recvSt
    /\ hs' = [hs EXCEPT ![s] = "done"]
    /\ UNCHANGED <<storeVars, busVars, rpc, next, out, http, histVars, postLeft,
                   readLeft, inLeft, openLeft>>
    /\ UNCHANGED auxVars

\* ------------------------------------------- the critical sections, step by step
\* The same loop body of recv_task (main.rs:114-141) at the grain of its
\* statements: the message is taken from the stream, the mutex is acquired,
\* the collection is written in the steps Vec performs, the diagnostic is
\* written and the guard dropped.

\* A lock that lets a second task in while the guard is held.
MutexRacy(holder) == TRUE

\* Mutex::lock(): returns once no other guard is alive.
MutexFree(holder) == holder = NoTask

\* What is in place of a Vec between the drop of its old value and the move
\* of the new one.
Dropped == <<[dropped |-> TRUE]>>

\* Vec::push given the length it read: the element goes to slot n + 1 and the
\* length becomes n + 1.
VecPush(rs, n, msg) ==
    [i \in 1..(n + 1) |-> IF i = n + 1 THEN msg
                          ELSE IF i <= Len(rs) THEN rs[i] ELSE [uninit |-> TRUE]]

\* receiver.next().await and the match: a non-text item ends the loop, a
\* message for the store is kept in msg, anything else is skipped.
TakeItem(s, item) ==
    /\ Alive(recvSt[s])
    /\ rpc[s] = "wait"
    /\ inLeft > 0
    /\ inLeft' = inLeft - 1
    /\ IF item.kind # "text"
         THEN /\ recvSt' = [recvSt EXCEPT ![s] = "finished"]
              /\ UNCHANGED <<rpc, loc, reported>>
         ELSE /\ UNCHANGED recvSt
              /\ CASE Dispatch(item.text) = "tabs" ->
                        /\ rpc' = [rpc EXCEPT ![s] = "tabs_lock"]
                        /\ loc' = [loc EXCEPT ![s] = [kind |-> "msg", msg |-> item.text.json, n |-> 0]]
                        /\ UNCHANGED reported
                   [] Dispatch(item.text) = "result" ->
                        /\ rpc' = [rpc EXCEPT ![s] = "results_lock"]
                        /\ loc' = [loc EXCEPT ![s] = [kind |-> "msg", msg |-> item.text.json, n |-> 0]]
                        /\ reported' = Append(reported, [by |-> s, rec |-> item.text.json])
                   [] OTHER ->
                        UNCHANGED <<rpc, loc, reported>>
    /\ UNCHANGED <<storeVars, busVars, hs, sendSt, next, out, http, histVars,
                   postLeft, readLeft, openLeft>>
    /\ UNCHANGED otherVars

\* let mut tabs = state_inner.tabs.lock().unwrap();
LockTabs(s) ==
    /\ rpc[s] = "tabs_lock"
    /\ MutexFree(tabsLock)
    /\ tabsLock' = s
    /\ rpc' = [rpc EXCEPT ![s] = "tabs_drop"]
    /\ UNCHANGED <<tabs, results, resultsLock, busVars, hs, sendSt, recvSt, next, out, http,
                   histVars, postLeft, readLeft, inLeft, openLeft, loc, reported>>
    /\ UNCHANGED otherVars

\* *tabs = new_tabs, first half: the old list is dropped.
DropOldTabs(s) ==
    /\ rpc[s] = "tabs_drop"
    /\ tabs' = Dropped
    /\ rpc' = [rpc EXCEPT ![s] = "tabs_move"]
    /\ UNCHANGED <<results, tabsLock, resultsLock, busVars, hs, sendSt, recvSt, next, out, http,
                   histVars, postLeft, readLeft, inLeft, openLeft, loc, reported>>
    /\ UNCHANGED otherVars

\* *tabs = new_tabs, second half: the new list is moved in.
MoveNewTabs(s) ==
    /\ rpc[s] = "tabs_move"
    /\ tabs' = ReplaceTabs(tabs, VecTabInfo(loc[s].msg.tabs))
    /\ lastReport' = loc[s].msg.tabs.arr
    /\ loc' = [loc EXCEPT ![s] = NoLocals]
    /\ rpc' = [rpc EXCEPT ![s] = "tabs_log"]
    /\ UNCHANGED <<results, tabsLock, resultsLock, busVars, hs, sendSt, recvSt, next, out, http,
                   published, sendCalls, resultLog, tabsAtOpen, lastIn,
                   postLeft, readLeft, inLeft, openLeft, reported>>
    /\ UNCHANGED otherVars

\* let mut results = state_inner.results.lock().unwrap();
LockResults(s) ==
    /\ rpc[s] = "results_lock"
    /\ MutexFree(resultsLock)
    /\ resultsLock' = s
    /\ rpc' = [rpc EXCEPT ![s] = "results_len"]
    /\ UNCHANGED <<tabs, results, tabsLock, busVars, hs, sendSt, recvSt, next, out, http,
                   histVars, postLeft, readLeft, inLeft, openLeft, loc, reported>>
    /\ UNCHANGED otherVars

\* results.push(msg.clone()), first half: the length is read.
PushReadLen(s) ==
    /\ rpc[s] = "results_len"
    /\ loc' = [loc EXCEPT ![s].n = Len(results)]
    /\ rpc' = [rpc EXCEPT ![s] = "results_push"]
    /\ UNCHANGED <<storeVars, busVars, hs, sendSt, recvSt, next, out, http,
                   histVars, postLeft, readLeft, inLeft, openLeft, reported>>
    /\ UNCHANGED otherVars

\* results.push(msg.clone()), second half: the slot and the new length are written.
PushWrite(s) ==
    /\ rpc[s] = "results_push"
    /\ results' = VecPush(results, loc[s].n, loc[s].msg)
    /\ resultLog' = Append(resultLog, [by |-> s, rec |-> loc[s].msg])
    /\ rpc' = [rpc EXCEPT ![s] = "results_evict"]
    /\ UNCHANGED <<tabs, tabsLock, resultsLock, busVars, hs, sendSt, recvSt, next, out, http,
                   published, sendCalls, lastReport, tabsAtOpen, lastIn,
                   postLeft, readLeft, inLeft, openLeft, loc, reported>>
    /\ UNCHANGED otherVars

\* if results.len() > 100 { results.remove(0); }
EvictOldest(s) ==
    /\ rpc[s] = "results_evict"
    /\ results' = IF Len(results) > ResultsCap THEN Tail(results) ELSE results
    /\ loc' = [loc EXCEPT ![s] = NoLocals]
    /\ rpc' = [rpc EXCEPT ![s] = "results_log"]
    /\ UNCHANGED <<tabs, tabsLock, resultsLock, busVars, hs, sendSt, recvSt, next, out, http,
                   histVars, postLeft, readLeft, inLeft, openLeft, reported>>
    /\ UNCHANGED otherVars

\* ----------------------------------------------------------- specification
\* main (Commands::Start): an empty store, a channel whose only receiver was
\* dropped at once, no connection yet.
\* What is still to come, <<POST, GET, stream items, upgrades>>: a receiver
\* left behind by the publishers, a fan-out, a command with its report, and
\* reports filling the store.
Scenarios ==
    { <<MaxPosts, 0, 0, 1>>,
      <<2, 0, 0, MaxSessions>>,
      <<1, 1, 1, MaxSessions>>,
      <<0, 1, MaxItems, 2>> }

Started ==
    /\ tabs = <<>>
    /\ results = <<>>
    /\ tabsLock = NoTask
    /\ resultsLock = NoTask
    /\ buffer = <<>>
    /\ tail = 0
    /\ hs = [s \in Sessions |-> "none"]
    /\ sendSt = [s \in Sessions |-> "none"]
    /\ recvSt = [s \in Sessions |-> "none"]
    /\ rpc = [s \in Sessions |-> "wait"]
    /\ next = [s \in Sessions |-> 0]
    /\ out = [s \in Sessions |-> <<>>]
    /\ http = [ep |-> "none"]
    /\ lastIn = [kind |-> "none"]
    /\ published = <<>>
    /\ sendCalls = 0
    /\ resultLog = <<>>
    /\ lastReport = <<>>
    /\ tabsAtOpen = [s \in Sessions |-> <<>>]
    /\ loc = [s \in Sessions |-> NoLocals]
    /\ reported = <<>>

\* Nothing on the stream of the frame codec.
\* No `start` command has been run and the port is free.
NoStart ==
    /\ startPc = [i \in Instances |-> "none"]
    /\ made = [i \in Instances |-> FALSE]
    /\ probed = [i \in Instances |-> "none"]
    /\ listening = Nobody

Idle ==
    /\ NoStart
    /\ wire = <<>>
    /\ wireEof = FALSE
    /\ onWire = <<>>
    /\ got = <<>>
    /\ endian = "little"

Budget(S) ==
    \E sc \in S : postLeft = sc[1] /\ readLeft = sc[2] /\ inLeft = sc[3] /\ openLeft = sc[4]

Init == Started /\ Budget(Scenarios) /\ Idle

Next ==
    \/ \E body \in InjectBodies : InjectHandler(body)
    \/ \E body \in NavigateBodies : NavigateHandler(body)
    \/ GetTabsHandler
    \/ ResultsHandler
    \/ \E s \in Sessions : WsOpen(s)
    \/ \E s \in Sessions : SendTaskStep(s)
    \/ \E s \in Sessions, item \in Frames : RecvTaskNext(s, item)
    \/ \E s \in Sessions : LogTabs(s)
    \/ \E s \in Sessions : LogResult(s)
    \/ \E s \in Sessions : Select(s)
    \/ \E s \in Sessions : SendTaskYield(s)
    \/ \E s \in Sessions : RecvTaskYield(s)

Spec == Init /\ [][Next]_vars

\* The runtime keeps polling a woken task: a task inside a poll goes on to
\* its next await, an aborted task yields once nothing is ready for it, and
\* handle_socket is woken when one of its join handles completes.
Fairness ==
    \A s \in Sessions :
        /\ WF_vars(LogTabs(s))
        /\ WF_vars(LogResult(s))
        /\ WF_vars(Select(s))
        /\ WF_vars(SendTaskYield(s))
        /\ WF_vars(RecvTaskYield(s))

LiveScenarios == {<<MaxPosts, 0, 0, 1>>, <<1, 1, 1, MaxSessions>>}

InitLive == Started /\ Budget(LiveScenarios) /\ Idle

FairSpec == InitLive /\ [][Next]_vars /\ Fairness

\* The store under concurrent reporters and readers: two connections, reports
\* enough to evict, and reads at any point in between.
StoreScenarios == { <<0, 1, MaxItems, 2>> }

\* What the connections send in it: both tabs reports, two kinds of result, a
\* message of no interest to the store, and the end of a stream.
StoreFrames ==
    {[kind |-> "text", text |-> Doc(v)] :
        v \in TabsReports
              \cup {r \in ResultReports : r.type.str \in {"injection_result", "html_result"}}
              \cup {r \in OtherReports : "entry" \in DOMAIN r}}
        \cup {[kind |-> "end"]}

StoreInit == Started /\ Budget(StoreScenarios) /\ Idle

StoreNext ==
    \/ \E s \in Sessions : WsOpen(s)
    \/ \E s \in Sessions, item \in StoreFrames : TakeItem(s, item)
    \/ \E s \in Sessions : LockTabs(s)
    \/ \E s \in Sessions : DropOldTabs(s)
    \/ \E s \in Sessions : MoveNewTabs(s)
    \/ \E s \in Sessions : LogTabs(s)
    \/ \E s \in Sessions : LockResults(s)
    \/ \E s \in Sessions : PushReadLen(s)
    \/ \E s \in Sessions : PushWrite(s)
    \/ \E s \in Sessions : EvictOldest(s)
    \/ \E s \in Sessions : LogResult(s)
    \/ GetTabsHandler
    \/ ResultsHandler

StoreSpec == StoreInit /\ [][StoreNext]_vars

\* ------------------------------------------------------------------ helpers
Range(f) == {f[i] : i \in DOMAIN f}
Last(q) == q[Len(q)]
LastN(q, n) == IF Len(q) <= n THEN q ELSE SubSeq(q, Len(q) - n + 1, Len(q))
Ended(st) == st \in {"finished", "cancelled"}
Front(q) == SubSeq(q, 1, Len(q) - 1)

\* r is an interleaving of the sequences f[s] that keeps the order of each.
RECURSIVE IsMerge(_, _)
IsMerge(r, f) ==
    IF r = <<>>
      THEN \A s \in DOMAIN f : f[s] = <<>>
      ELSE \E s \in DOMAIN f :
              /\ f[s] # <<>>
              /\ Head(f[s]) = Head(r)
              /\ IsMerge(Tail(r), [f EXCEPT ![s] = Tail(f[s])])

\* ------------------------------------------------------------- protocol.rs
\* Lengths reach 2^32 and beyond, so a length is kept as two limbs,
\* hi * 2^16 + lo, and a byte string as runs of equal bytes, [b, n] with n a
\* length > 0 and neighbouring runs differing in b.
Limb == 65536

Big(n) == [hi |-> n \div Limb, lo |-> n % Limb]

BigAdd(a, b) ==
    [hi |-> a.hi + b.hi + ((a.lo + b.lo) \div Limb), lo |-> (a.lo + b.lo) % Limb]

BigLeq(a, b) == a.hi < b.hi \/ (a.hi = b.hi /\ a.lo <= b.lo)

\* a - b for b <= a
BigSub(a, b) ==
    IF a.lo >= b.lo
      THEN [hi |-> a.hi - b.hi, lo |-> a.lo - b.lo]
      ELSE [hi |-> a.hi - b.hi - 1, lo |-> a.lo + Limb - b.lo]

Run(b, n) == IF n = Big(0) THEN <<>> ELSE <<[b |-> b, n |-> n]>>

BCat(x, y) ==
    IF x = <<>> THEN y
    ELSE IF y = <<>> THEN x
    ELSE IF Last(x).b = Head(y).b
      THEN Front(x) \o <<[b |-> Head(y).b, n |-> BigAdd(Last(x).n, Head(y).n)]>> \o Tail(y)
    ELSE x \o y

Half(q) == Len(q) \div 2
Lower(q) == SubSeq(q, 1, Half(q))
Upper(q) == SubSeq(q, Half(q) + 1, Len(q))

\* The byte string of a literal.
RECURSIVE Bytes(_)
Bytes(q) ==
    IF q = <<>> THEN <<>>
    ELSE IF Len(q) = 1 THEN Run(q[1], Big(1))
    ELSE BCat(Bytes(Lower(q)), Bytes(Upper(q)))

RECURSIVE BLen(_)
BLen(bs) ==
    IF bs = <<>> THEN Big(0)
    ELSE IF Len(bs) = 1 THEN bs[1].n
    ELSE BigAdd(BLen(Lower(bs)), BLen(Upper(bs)))

\* The first k bytes of bs (all of it when it is shorter).
RECURSIVE BTake(_, _)
BTake(bs, k) ==
    IF k = Big(0) \/ bs = <<>> THEN <<>>
    ELSE IF Len(bs) = 1
      THEN IF BigLeq(bs[1].n, k) THEN bs ELSE <<[b |-> bs[1].b, n |-> k]>>
    ELSE IF BigLeq(k, BLen(Lower(bs))) THEN BTake(Lower(bs), k)
    ELSE Lower(bs) \o BTake(Upper(bs), BigSub(k, BLen(Lower(bs))))

\* bs without its first k bytes.
RECURSIVE BDrop(_, _)
BDrop(bs, k) ==
    IF k = Big(0) \/ bs = <<>> THEN bs
    ELSE IF Len(bs) = 1
      THEN IF BigLeq(bs[1].n, k) THEN <<>> ELSE <<[b |-> bs[1].b, n |-> BigSub(bs[1].n, k)]>>
    ELSE IF BigLeq(BLen(Lower(bs)), k) THEN BDrop(Upper(bs), BigSub(k, BLen(Lower(bs))))
    ELSE BDrop(Lower(bs), k) \o Upper(bs)

\* The bytes of a short string one by one.
RECURSIVE Expand(_)
Expand(bs) ==
    IF bs = <<>> THEN <<>>
    ELSE IF Len(bs) = 1 THEN [i \in 1..bs[1].n.lo |-> bs[1].b]
    ELSE Expand(Lower(bs)) \o Expand(Upper(bs))

\* A serde_json::Value on the wire.  Strings are byte strings, an object is
\* its members in key order (serde_json's Map is a BTreeMap), each key once:
\* [obj |-> << [k |-> key, v |-> value], .. >>].
JObj(members) == [obj |-> members]
Is(v, tag) == DOMAIN v = {tag}

RECURSIVE Digits(_)
Digits(n) == IF n < 10 THEN <<48 + n>> ELSE Digits(n \div 10) \o <<48 + (n % 10)>>

\* "..." around a string that needs no escape.
Quote(s) == BCat(BCat(Bytes(<<34>>), s), Bytes(<<34>>))

\* serde_json::to_string(msg): compact, no whitespace, members in key order.
RECURSIVE to_string(_)
RECURSIVE JoinElems(_)
RECURSIVE JoinMembers(_)
to_string(v) ==
    CASE Is(v, "null") -> Bytes(<<110, 117, 108, 108>>)
      [] Is(v, "bool") -> IF v.bool THEN Bytes(<<116, 114, 117, 101>>)
                                     ELSE Bytes(<<102, 97, 108, 115, 101>>)
      [] Is(v, "num") -> Bytes(Digits(v.num))
      [] Is(v, "str") -> Quote(v.str)
      [] Is(v, "arr") -> BCat(BCat(Bytes(<<91>>), JoinElems(v.arr)), Bytes(<<93>>))
      [] Is(v, "obj") -> BCat(BCat(Bytes(<<123>>), JoinMembers(v.obj)), Bytes(<<125>>))

JoinElems(a) ==
    IF a = <<>> THEN <<>>
    ELSE IF Len(a) = 1 THEN to_string(a[1])
    ELSE BCat(BCat(to_string(a[1]), Bytes(<<44>>)), JoinElems(Tail(a)))

JoinMembers(ms) ==
    IF ms = <<>> THEN <<>>
    ELSE LET one == BCat(BCat(Quote(ms[1].k), Bytes(<<58>>)), to_string(ms[1].v))
         IN  IF Len(ms) = 1 THEN one
             ELSE BCat(BCat(one, Bytes(<<44>>)), JoinMembers(Tail(ms)))

\* The parser of serde_json::from_slice for JSON as to_string writes it (no
\* whitespace, no escape, no sign, fraction or exponent; none of these occurs
\* in the bytes read here).  A result is [ok, val, rest] or [ok, eof]: eof
\* tells that the input ended where more was expected (serde_json's
\* Category::Eof) rather than held a wrong byte (Category::Syntax).
Fail(r) == [ok |-> FALSE, eof |-> r = <<>>]
Done(v, r) == [ok |-> TRUE, val |-> v, rest |-> r]

\* Byte-wise order of two keys.
LexLess(a, b) ==
    LET same == {i \in 0..Len(a) : i <= Len(b) /\ SubSeq(a, 1, i) = SubSeq(b, 1, i)}
        n == CHOOSE i \in same : \A j \in same : j <= i
    IN  IF n = Len(b) THEN FALSE
        ELSE IF n = Len(a) THEN TRUE
        ELSE a[n + 1] < b[n + 1]

\* Map::insert: the members stay in key order, a repeated key is replaced.
RECURSIVE Insert(_, _, _)
Insert(ms, k, v) ==
    IF ms = <<>> THEN <<[k |-> k, v |-> v]>>
    ELSE IF Head(ms).k = k THEN <<[k |-> k, v |-> v]>> \o Tail(ms)
    ELSE IF LexLess(Expand(k), Expand(Head(ms).k)) THEN <<[k |-> k, v |-> v]>> \o ms
    ELSE <<Head(ms)>> \o Insert(Tail(ms), k, v)

Literal(bs, lit, v) ==
    IF BTake(bs, Big(Len(lit))) = Bytes(lit) THEN Done(v, BDrop(bs, Big(Len(lit))))
    ELSE [ok |-> FALSE, eof |-> bs = BTake(Bytes(lit), BLen(bs))]

\* The characters of a string up to its closing quote.
ScanStr(r) ==
    LET stops == {i \in DOMAIN r : r[i].b = 34 \/ r[i].b < 32 \/ r[i].b = 92 \/ r[i].b > 127}
        at == CHOOSE i \in stops : \A j \in stops : i <= j
    IN  IF stops = {} THEN Fail(<<>>)
        ELSE IF r[at].b # 34 THEN Fail(SubSeq(r, at, Len(r)))
        ELSE Done(SubSeq(r, 1, at - 1), BDrop(SubSeq(r, at, Len(r)), Big(1)))

RECURSIVE ScanDigits(_, _)
ScanDigits(acc, r) ==
    IF r # <<>> /\ Head(r).b \in 48..57
      THEN ScanDigits(10 * acc + (Head(r).b - 48), BDrop(r, Big(1)))
      ELSE Done(JNum(acc), r)

Number(bs) ==
    LET r == BDrop(bs, Big(1))
    IN  IF Head(bs).b = 48
          THEN IF r # <<>> /\ Head(r).b \in 48..57 THEN Fail(r) ELSE Done(JNum(0), r)
          ELSE ScanDigits(Head(bs).b - 48, r)

RECURSIVE ParseValue(_)
RECURSIVE ParseElems(_, _)
RECURSIVE ParseMembers(_, _)
ParseValue(bs) ==
    IF bs = <<>> THEN Fail(bs)
    ELSE LET c == Head(bs).b
             r == BDrop(bs, Big(1))
         IN  CASE c = 110 -> Literal(bs, <<110, 117, 108, 108>>, JNull)
               [] c = 116 -> Literal(bs, <<116, 114, 117, 101>>, JBool(TRUE))
               [] c = 102 -> Literal(bs, <<102, 97, 108, 115, 101>>, JBool(FALSE))
               [] c \in 48..57 -> Number(bs)
               [] c = 34 -> LET s == ScanStr(r)
                            IN  IF s.ok THEN Done(JStr(s.val), s.rest) ELSE s
               [] c = 91 -> IF r # <<>> /\ Head(r).b = 93
                              THEN Done(JArr(<<>>), BDrop(r, Big(1)))
                              ELSE ParseElems(<<>>, r)
               [] c = 123 -> IF r # <<>> /\ Head(r).b = 125
                               THEN Done(JObj(<<>>), BDrop(r, Big(1)))
                               ELSE ParseMembers(<<>>, r)
               [] OTHER -> Fail(bs)

ParseElems(acc, r) ==
    LET e == ParseValue(r)
    IN  IF ~e.ok THEN e
        ELSE IF e.rest = <<>> THEN Fail(e.rest)
        ELSE IF Head(e.rest).b = 44 THEN ParseElems(Append(acc, e.val), BDrop(e.rest, Big(1)))
        ELSE IF Head(e.rest).b = 93 THEN Done(JArr(Append(acc, e.val)), BDrop(e.rest, Big(1)))
        ELSE Fail(e.rest)

ParseMembers(acc, r) ==
    IF r = <<>> \/ Head(r).b # 34 THEN Fail(r)
    ELSE LET k == ScanStr(BDrop(r, Big(1)))
         IN  IF ~k.ok THEN k
             ELSE IF k.rest = <<>> \/ Head(k.rest).b # 58 THEN Fail(k.rest)
             ELSE LET e == ParseValue(BDrop(k.rest, Big(1)))
                  IN  IF ~e.ok THEN e
                      ELSE IF e.rest = <<>> THEN Fail(e.rest)
                      ELSE IF Head(e.rest).b = 44
                        THEN ParseMembers(Insert(acc, k.val, e.val), BDrop(e.rest, Big(1)))
                      ELSE IF Head(e.rest).b = 125
                        THEN Done(JObj(Insert(acc, k.val, e.val)), BDrop(e.rest, Big(1)))
                      ELSE Fail(e.rest)

\* serde_json::from_slice(&body): one value and nothing after it.
from_slice(body) ==
    LET p == ParseValue(body)
    IN  IF ~p.ok THEN p
        ELSE IF p.rest # <<>> THEN [ok |-> FALSE, eof |-> FALSE]
        ELSE [ok |-> TRUE, val |-> p.val]

\* msg_str.len() as u32: the low 32 bits of the length.
AsU32(n) == [hi |-> n.hi % Limb, lo |-> n.lo]

\* u32::to_ne_bytes / u32::from_ne_bytes on a target of the given byte order.
to_ne_bytes(len, order) ==
    LET le == <<len.lo % 256, len.lo \div 256, len.hi % 256, len.hi \div 256>>
    IN  IF order = "little" THEN le ELSE <<le[4], le[3], le[2], le[1]>>

from_ne_bytes(len_buf, order) ==
    LET le == IF order = "little" THEN len_buf
              ELSE <<len_buf[4], len_buf[3], len_buf[2], len_buf[1]>>
    IN  [hi |-> le[3] + 256 * le[4], lo |-> le[1] + 256 * le[2]]

\* What write_message puts on the writer for a body: the prefix, then the body.
Frame(msg_str, order) == BCat(Bytes(to_ne_bytes(AsU32(BLen(msg_str)), order)), msg_str)

\* write_message(writer, msg) on a writer that takes every byte: the bytes
\* on the writer afterwards.
write_message(writer, msg, order) == BCat(writer, Frame(to_string(msg), order))

\* Read::read_exact(buf) for a buffer of k bytes on a stream that has ended
\* after the bytes given: the buffer is filled, or the stream is used up and
\* the error is UnexpectedEof.
read_exact(stream, k) ==
    IF BigLeq(k, BLen(stream))
      THEN [ok |-> TRUE, data |-> BTake(stream, k), rest |-> BDrop(stream, k)]
      ELSE [ok |-> FALSE, kind |-> "UnexpectedEof", rest |-> <<>>]

\* An error kind taken from the parser's error as io::Error::from does:
\* UnexpectedEof for an input that ended early.
JsonErrorKindOfCategory(j) == IF j.eof THEN "UnexpectedEof" ELSE "InvalidData"

\* map_err(|e| io::Error::new(io::ErrorKind::InvalidData, e))
JsonErrorKind(j) == "InvalidData"

\* read_message(reader): the io::Result and the stream left behind.
read_message(reader, order) ==
    LET len_buf == read_exact(reader, Big(4))
    IN  IF ~len_buf.ok
          THEN [res |-> [ok |-> FALSE, kind |-> len_buf.kind], rest |-> len_buf.rest]
          ELSE LET len == from_ne_bytes(Expand(len_buf.data), order)
                   body == read_exact(len_buf.rest, len)
               IN  IF ~body.ok
                     THEN [res |-> [ok |-> FALSE, kind |-> body.kind], rest |-> body.rest]
                     ELSE LET j == from_slice(body.data)
                          IN  IF j.ok
                                THEN [res |-> [ok |-> TRUE, val |-> j.val], rest |-> body.rest]
                                ELSE [res |-> [ok |-> FALSE, kind |-> JsonErrorKind(j)],
                                      rest |-> body.rest]

\* The reads of read_message can complete without waiting for more bytes.
FrameReady(stream, order) ==
    /\ BigLeq(Big(4), BLen(stream))
    /\ BigLeq(from_ne_bytes(Expand(BTake(stream, Big(4))), order), BLen(BDrop(stream, Big(4))))

\* Messages written: two command objects, a scalar, and a string of
\* 2^32 - 2 characters, whose text is 2^32 bytes long.
KOk == Bytes(<<111, 107>>)
KTabId == Bytes(<<116, 97, 98, 73, 100>>)
KType == Bytes(<<116, 121, 112, 101>>)
SPing == Bytes(<<112, 105, 110, 103>>)
SResult == Bytes(<<114, 101, 115, 117, 108, 116>>)

CodecMsgs ==
    { JObj(<<[k |-> KType, v |-> JStr(SPing)]>>),
      JObj(<<[k |-> KOk, v |-> JBool(TRUE)], [k |-> KTabId, v |-> JNum(5)],
             [k |-> KType, v |-> JStr(SResult)]>>),
      JArr(<<JNull, JNum(10)>>),
      JStr(Run(97, [hi |-> 65535, lo |-> 65534])) }

\* Frames a peer writes by itself, [body, cut]: a correct prefix and the body,
\* of which only the first cut bytes arrive before the peer is gone.  The
\* bodies: {o  and  [1,  (no JSON), {"type":"ping"} (cut short).
RawFrames ==
    { [body |-> Bytes(<<123, 111>>), cut |-> 6],
      [body |-> Bytes(<<91, 49, 44>>), cut |-> 7],
      [body |-> to_string(JObj(<<[k |-> KType, v |-> JStr(SPing)]>>)), cut |-> 2],
      [body |-> to_string(JObj(<<[k |-> KType, v |-> JStr(SPing)]>>)), cut |-> 9] }

CutShort(f) == BLen(BTake(Frame(f.body, "little"), Big(f.cut))) # BLen(Frame(f.body, "little"))

\* write_message(stdout, msg)
WriteMessage(msg) ==
    /\ ~wireEof
    /\ Len(onWire) < MaxFrames
    /\ wire' = write_message(wire, msg, endian)
    /\ onWire' = Append(onWire, [by |-> "write_message", msg |-> msg])
    /\ UNCHANGED <<wireEof, got, endian, serverVars, startVars>>

\* The peer writes a frame by itself; cut short, it is the last thing on the stream.
PeerFeeds(f) ==
    /\ ~wireEof
    /\ Len(onWire) < MaxFrames
    /\ wire' = BCat(wire, BTake(Frame(f.body, endian), Big(f.cut)))
    /\ wireEof' = CutShort(f)
    /\ onWire' = Append(onWire, [by |-> "peer", body |-> f.body, cut |-> f.cut])
    /\ UNCHANGED <<got, endian, serverVars, startVars>>

\* The writing end is closed.
CloseWire ==
    /\ ~wireEof
    /\ wireEof' = TRUE
    /\ UNCHANGED <<wire, onWire, got, endian, serverVars, startVars>>

\* read_message(stdin): it returns once its reads are served, by bytes or by
\* the end of the stream.
ReadMessage ==
    /\ wireEof \/ FrameReady(wire, endian)
    /\ Len(got) <= Len(onWire)
    /\ got' = Append(got, read_message(wire, endian).res)
    /\ wire' = read_message(wire, endian).rest
    /\ UNCHANGED <<wireEof, onWire, endian, serverVars, startVars>>

\* A stream between two ends of one build, of either byte order.
CodecInit ==
    /\ Started
    /\ NoStart
    /\ Budget({<<0, 0, 0, 0>>})
    /\ wire = <<>>
    /\ wireEof = FALSE
    /\ onWire = <<>>
    /\ got = <<>>
    /\ endian \in {"little", "big"}

CodecNext ==
    \/ \E msg \in CodecMsgs : WriteMessage(msg)
    \/ \E f \in RawFrames : PeerFeeds(f)
    \/ CloseWire
    \/ ReadMessage

CodecSpec == CodecInit /\ [][CodecNext]_vars

\* ------------------------------------------------- main (Commands::Start)
\* A bind that shares the port with whoever listens on it.
BindShared == TRUE

\* TcpListener::bind(&addr_str), of std and of tokio: Ok when nobody listens
\* on the address, Err (address in use) otherwise.
BindOk == listening = Nobody

\* The command is run: Cli::parse, addr_str is formatted.
Start(i) ==
    /\ startPc[i] = "none"
    /\ startPc' = [startPc EXCEPT ![i] = "probe"]
    /\ UNCHANGED <<made, probed, listening, serverVars, codecVars>>

\* std::net::TcpListener::bind(&addr_str).is_err(): on Err the branch that
\* reports the conflict is entered; on Ok the listener lives until the
\* condition has been evaluated.
ProbeBind(i) ==
    /\ startPc[i] = "probe"
    /\ IF BindOk
         THEN /\ listening' = i
              /\ probed' = [probed EXCEPT ![i] = "free"]
              /\ startPc' = [startPc EXCEPT ![i] = "probing"]
         ELSE /\ probed' = [probed EXCEPT ![i] = "bound"]
              /\ startPc' = [startPc EXCEPT ![i] = "conflict"]
              /\ UNCHANGED listening
    /\ UNCHANGED <<made, serverVars, codecVars>>

\* The three eprintln! of the conflict and std::process::exit(1).
Exit(i) ==
    /\ startPc[i] = "conflict"
    /\ startPc' = [startPc EXCEPT ![i] = "exit1"]
    /\ UNCHANGED <<made, probed, listening, serverVars, codecVars>>

\* The temporary listener of the probe is dropped: the port is free again.
ProbeDrop(i) ==
    /\ startPc[i] = "probing"
    /\ listening' = IF listening = i THEN Nobody ELSE listening
    /\ startPc' = [startPc EXCEPT ![i] = "setup"]
    /\ UNCHANGED <<made, probed, serverVars, codecVars>>

\* broadcast::channel(100), Arc::new(AppState {..}) and the Router.
Setup(i) ==
    /\ startPc[i] = "setup"
    /\ made' = [made EXCEPT ![i] = TRUE]
    /\ startPc' = [startPc EXCEPT ![i] = "bind"]
    /\ UNCHANGED <<probed, listening, serverVars, codecVars>>

\* tokio::net::TcpListener::bind(&addr_str).await?: on Err main returns it;
\* on Ok axum::serve runs with the listener.
ServeBind(i) ==
    /\ startPc[i] = "bind"
    /\ IF BindOk
         THEN /\ listening' = i
              /\ startPc' = [startPc EXCEPT ![i] = "serving"]
         ELSE /\ startPc' = [startPc EXCEPT ![i] = "failed"]
              /\ UNCHANGED listening
    /\ UNCHANGED <<made, probed, serverVars, codecVars>>

\* Another process binds the port, or closes its listener.
StrangerBinds ==
    /\ listening = Nobody
    /\ listening' = Stranger
    /\ UNCHANGED <<startPc, made, probed, serverVars, codecVars>>

StrangerCloses ==
    /\ listening = Stranger
    /\ listening' = Nobody
    /\ UNCHANGED <<startPc, made, probed, serverVars, codecVars>>

StartInit ==
    /\ Started
    /\ Budget({<<0, 0, 0, 0>>})
    /\ Idle

StartNext ==
    \/ \E i \in Instances : Start(i)
    \/ \E i \in Instances : ProbeBind(i)
    \/ \E i \in Instances : Exit(i)
    \/ \E i \in Instances : ProbeDrop(i)
    \/ \E i \in Instances : Setup(i)
    \/ \E i \in Instances : ServeBind(i)
    \/ StrangerBinds
    \/ StrangerCloses

StartSpec == StartInit /\ [][StartNext]_vars

\* ------------------------------------------------------------------ claims

\* C1: a subscriber that has fallen more than the channel's capacity behind is
\* not terminated by it: when its outbound loop resumes it stays running and
\* continues from the oldest message still retained.
C1_LagRecovery ==
    [][\A s \in Sessions :
          (sendSt[s] = "running" /\ Lagged(s) /\ next'[s] # next[s])
              => (sendSt'[s] = "running" /\ next'[s] = Oldest)]_vars

\* C2: the result history never holds more than the limit, and it is exactly
\* the last min(n, limit) of the n records reported so far, in arrival order.
C2_ResultRing ==
    /\ Len(results) <= ResultsCap
    /\ results = LastN([i \in DOMAIN resultLog |-> resultLog[i].rec], ResultsCap)

C2_Witness ==
    /\ Len(resultLog) > ResultsCap
    /\ Len(results) = ResultsCap
    /\ results[1] = resultLog[2].rec

\* C3: a session that opened while tabs were known is sent the snapshot of the
\* store before any live bus message is forwarded to it.
C3_SnapshotOnOpen ==
    \A s \in Sessions :
        (tabsAtOpen[s] # <<>> /\ out[s] # <<>>)
            => out[s][1].val.type.str \in {"sync_script", "tabs"}

\* C4: each subscriber is forwarded exactly the messages published while it
\* was attached, in publication order, without gap, duplicate or replay.
C4_FanOutOrder ==
    \A s \in Sessions :
        /\ \A i \in DOMAIN out[s] :
              /\ out[s][i].pos < Len(published)
              /\ s \in published[out[s][i].pos + 1].subs
              /\ out[s][i].val = published[out[s][i].pos + 1].val
        /\ \A i, j \in DOMAIN out[s] : i < j => out[s][i].pos < out[s][j].pos
        /\ \A p \in 0..(Len(published) - 1) :
              (s \in published[p + 1].subs /\ Alive(sendSt[s]) /\ next[s] > p)
                  => \E i \in DOMAIN out[s] : out[s][i].pos = p

C4_Witness ==
    /\ Len(out[1]) >= 2
    /\ out[2] # <<>>
    /\ out[1][1].pos < out[2][1].pos
    /\ out[1][2].pos = out[2][1].pos

\* C5: once either loop of a session has ended, the other one is cancelled
\* (handle_socket does not return before it has aborted it) and the session
\* reaches Closed: handle_socket returned, both tasks gone.  A closed session
\* stays closed and neither of its loops does anything any more.
Closed(s) == hs[s] = "done" /\ Ended(sendSt[s]) /\ Ended(recvSt[s])

C5_PairedTermination ==
    /\ \A s \in Sessions :
          (sendSt[s] = "finished" \/ recvSt[s] = "finished") ~> Closed(s)
    /\ [](\A s \in Sessions :
             hs[s] = "done" => (sendSt[s] # "running" /\ recvSt[s] # "running"))
    /\ [][\A s \in Sessions :
             Closed(s) =>
                 /\ Closed(s)'
                 /\ out'[s] = out[s]
                 /\ next'[s] = next[s]
                 /\ \A item \in Frames : ~RecvTaskNext(s, item)]_vars

C5_Witness ==
    \E s, t \in Sessions :
        /\ Closed(s) /\ recvSt[s] = "finished" /\ sendSt[s] = "cancelled"
        /\ Closed(t) /\ sendSt[t] = "finished" /\ recvSt[t] = "cancelled"

\* C6: an accepted inject request {tabId: T, script: S} is published as
\* {type: inject, tabId: T, script: S}, the frame written to a peer is the
\* published message, and an injection_result that peer then reports is in
\* the history a results read returns.
InjectWrittenTo(s) == \E i \in DOMAIN out[s] : out[s][i].val.type = JStr("inject")

C7_NonBlockingPublish ==
    /\ [](postLeft > 0 =>
            /\ \A body \in InjectBodies : ENABLED InjectHandler(body)
            /\ \A body \in NavigateBodies : ENABLED NavigateHandler(body))
    /\ [][sendCalls' > sendCalls =>
            /\ http'.status = 200
            /\ http'.resp.status \in {JStr("sent"), JStr("navigation_sent")}
            /\ UNCHANGED storeVars
            /\ (Receivers = {} => UNCHANGED <<buffer, tail, published, out>>)]_vars

C7_Witness ==
    /\ sendCalls > Len(published)
    /\ http.ep \in {"inject", "navigate"}
    /\ http.sent
    /\ \E s \in Sessions :
          sendSt[s] = "running" /\ out[s] = <<>> /\ tail - next[s] >= BusCapacity

\* C8 as stated: the tab list equals exactly the list of the last tabs report.
C8_TabReplacementExact == tabs = lastReport

\* C8: after a well-formed tabs report the tab list is that report's list
\* with every entry reduced to its id, url and title (null when absent; other
\* fields dropped; an entry written as a list gives them in that order),
\* nothing of an earlier report surviving, and a tabs read returns that list.
AsReported(o) ==
    IF DOMAIN o = {"arr"}
      THEN [id |-> o.arr[1], url |-> o.arr[2], title |-> o.arr[3]]
      ELSE [id |-> IF "id" \in DOMAIN o THEN o.id ELSE JNull,
            url |-> IF "url" \in DOMAIN o THEN o.url ELSE JNull,
            title |-> IF "title" \in DOMAIN o THEN o.title ELSE JNull]

C8_TabReplacement ==
    /\ [](/\ Len(tabs) = Len(lastReport)
          /\ \A i \in DOMAIN tabs : tabs[i] = AsReported(lastReport[i]))
    /\ [][(http'.ep = "tabs" /\ readLeft' < readLeft)
             => /\ Len(http'.resp.tabs) = Len(lastReport)
                /\ \A i \in DOMAIN lastReport :
                      http'.resp.tabs[i] = AsReported(lastReport[i])]_vars

C8_Witness ==
    /\ http.ep = "tabs"
    /\ http.resp.tabs # <<>>
    /\ tabs # <<>>
    /\ http.resp.tabs # tabs
    /\ tabsLock = NoTask

\* C9: a request that lacks a structurally required field (an inject without
\* script or tabId, a click without selector) gets a client error and
\* publishes nothing.
MissingRequired(ep, body) ==
    \/ ep = "inject" /\ ~("tabId" \in DOMAIN body /\ "script" \in DOMAIN body)
    \/ /\ ep = "navigate"
       /\ "type" \in DOMAIN body
       /\ body.type = JStr("click")
       /\ "selector" \notin DOMAIN body

C9_RequiredFields ==
    (http.ep \in {"inject", "navigate"} /\ MissingRequired(http.ep, http.body))
        => (http.status \in 400..499 /\ ~http.sent)

\* C10: a message of type audit_log, or of any type other than tabs and the
\* three result types, changes neither the tab list nor the result history
\* and leaves the inbound loop running at its await, where it takes the next
\* message.
IgnoredType(item) ==
    /\ item.kind = "text"
    /\ FromStrOk(item.text)
    /\ "type" \in DOMAIN item.text.json
    /\ IsStr(item.text.json.type)
    /\ item.text.json.type.str \notin ({"tabs"} \cup ResultTypes)

C10_UnknownTypes ==
    /\ [][\A s \in Sessions, item \in Frames :
             (RecvTaskNext(s, item) /\ IgnoredType(item))
                 => /\ tabs' = tabs
                    /\ results' = results
                    /\ recvSt'[s] = recvSt[s]
                    /\ rpc'[s] = "wait"
                    /\ (inLeft' > 0 => \E t \in Texts :
                           (ENABLED RecvTaskNext(s, [kind |-> "text", text |-> t]))')]_vars

C10_Witness ==
    /\ IgnoredType(lastIn)
    /\ lastIn.text.json.type = JStr("audit_log")
    /\ resultLog # <<>>
    /\ results = <<resultLog[1].rec>>
    /\ recvSt[resultLog[1].by] = "running"

\* C11: a task that is writing a diagnostic, or that is suspended at its
\* await, holds neither the tabs lock nor the results lock.
WritingDiagnostic(s) == rpc[s] \in {"tabs_log", "results_log"}
Suspended(s) == Alive(recvSt[s]) /\ rpc[s] = "wait"

C11_LockScope ==
    \A s \in Sessions :
        (WritingDiagnostic(s) \/ Suspended(s)) => (tabsLock # s /\ resultsLock # s)

\* C12: a read never observes a write in progress.  A tabs read returns the
\* list of the last tabs report applied in full (the empty list before the
\* first), a results read returns the history as it stands after a complete
\* append-and-evict, never more than the limit; and whenever a lock is free
\* the collection behind it is in such a state.
Applied == [i \in DOMAIN lastReport |-> AsReported(lastReport[i])]
Appended == LastN([i \in DOMAIN resultLog |-> resultLog[i].rec], ResultsCap)

C12_StoreAtomicity ==
    /\ [][(http'.ep = "tabs" /\ readLeft' < readLeft) => http'.resp.tabs = Applied]_vars
    /\ [][(http'.ep = "results" /\ readLeft' < readLeft)
             => /\ Len(http'.resp.results) <= ResultsCap
                /\ http'.resp.results = Appended]_vars
    /\ [](tabsLock = NoTask => tabs = Applied)
    /\ [](resultsLock = NoTask => results = Appended)

C12_Witness ==
    /\ http.ep = "results"
    /\ http.resp.results # <<>>
    /\ Len(results) > ResultsCap
    /\ resultsLock # NoTask
    /\ \E i, j \in DOMAIN resultLog : resultLog[i].by # resultLog[j].by

\* C20: concurrent appends are neither lost nor duplicated.  While no more
\* records have been reported than the history can hold, the history is an
\* interleaving of what each session reported (a record still on its way to
\* the history left aside): every record once, each session's in the order
\* it sent them.
SentBy(s) ==
    LET mine == SelectSeq(reported, LAMBDA e : e.by = s)
    IN  [i \in DOMAIN mine |-> mine[i].rec]

StoredBy(s) ==
    IF rpc[s] \in {"results_lock", "results_len", "results_push"}
      THEN Front(SentBy(s))
      ELSE SentBy(s)

C20_NoLostAppend ==
    Len(reported) <= ResultsCap => IsMerge(results, [s \in Sessions |-> StoredBy(s)])

C20_Witness ==
    /\ Len(reported) = ResultsCap
    /\ Len(results) = ResultsCap
    /\ reported[1].by # resultLog[1].by
    /\ results[1] # results[2]
    /\ resultsLock = NoTask

\* C13: what read_message returns is what write_message was given, frame by
\* frame: on a stream that only write_message wrote to, the i-th read returns
\* the i-th message written, and the bytes left on the stream are exactly
\* the frames not yet read.
OnlyWritten == \A i \in DOMAIN onWire : onWire[i].by = "write_message"

RECURSIVE Written(_)
Written(es) ==
    IF es = <<>> THEN <<>> ELSE write_message(Written(Front(es)), Last(es).msg, endian)

C13_FrameRoundTrip ==
    OnlyWritten =>
        /\ \A i \in DOMAIN got :
              i <= Len(onWire) => got[i] = [ok |-> TRUE, val |-> onWire[i].msg]
        /\ Len(got) <= Len(onWire) => wire = Written(SubSeq(onWire, Len(got) + 1, Len(onWire)))

\* C14: a read on a stream that ended inside the length prefix, inside the
\* body or before the prefix fails with UnexpectedEof; a read of a complete
\* frame whose body is no JSON fails with another kind, InvalidData.  (Frames
\* behind a body of 2^32 bytes or more are left aside: see C13.)
Delimited(e) == e.by = "peer" \/ BLen(to_string(e.msg)).hi < Limb
Truncated(e) == e.by = "peer" /\ CutShort(e)
Malformed(e) == e.by = "peer" /\ ~CutShort(e)

C14_TruncationDetection ==
    \A i \in DOMAIN got :
        (\A j \in 1..(i - 1) : j <= Len(onWire) => Delimited(onWire[j])) =>
            /\ (i <= Len(onWire) /\ Truncated(onWire[i]))
                  => got[i] = [ok |-> FALSE, kind |-> "UnexpectedEof"]
            /\ (i <= Len(onWire) /\ Malformed(onWire[i]))
                  => (~got[i].ok /\ got[i].kind = "InvalidData")
            /\ i > Len(onWire) => got[i] = [ok |-> FALSE, kind |-> "UnexpectedEof"]

C14_Witness ==
    /\ Len(got) = 2
    /\ Len(onWire) = 2
    /\ Malformed(onWire[1])
    /\ onWire[1].cut = 7
    /\ got[1].kind = "InvalidData"
    /\ Truncated(onWire[2])
    /\ onWire[2].cut > 4
    /\ got[2].kind = "UnexpectedEof"

\* C15: a text message that is no JSON, that has no string type, or that is
\* a tabs message without a tabs member or with one that is not a list of
\* tab objects (id an integer, url and title strings, each optional) changes
\* neither the tab list nor the result history, takes no lock, and leaves
\* the inbound loop running at its await, where it takes the next message.
TabObject(o) ==
    /\ IsObject(o)
    /\ "id" \in DOMAIN o => (IsNull(o.id) \/ (IsNum(o.id) /\ o.id.num \in I32))
    /\ "url" \in DOMAIN o => (IsNull(o.url) \/ IsStr(o.url))
    /\ "title" \in DOMAIN o => (IsNull(o.title) \/ IsStr(o.title))

Recoverable(item) ==
    /\ item.kind = "text"
    /\ \/ "json" \notin DOMAIN item.text
       \/ ~IsObject(item.text.json)
       \/ "type" \notin DOMAIN item.text.json
       \/ ~IsStr(item.text.json.type)
       \/ /\ item.text.json.type = JStr("tabs")
          /\ \/ "tabs" \notin DOMAIN item.text.json
             \/ ~IsArr(item.text.json.tabs)
             \/ \E i \in DOMAIN item.text.json.tabs.arr : ~TabObject(item.text.json.tabs.arr[i])

C15_RecoverableInput ==
    [][\A s \in Sessions, item \in Frames :
          (RecvTaskNext(s, item) /\ Recoverable(item))
              => /\ UNCHANGED storeVars
                 /\ recvSt'[s] = recvSt[s]
                 /\ rpc'[s] = "wait"
                 /\ tabsLock' # s /\ resultsLock' # s
                 /\ (inLeft' > 0 => \A f \in Frames :
                        (Recoverable(f) \/ f.kind # "text") => (ENABLED RecvTaskNext(s, f))')]_vars

\* C16: a navigate request makes exactly one send, of the message
\* {type: navigate, tabId, url} with tabId the body's tab_id or "active" and
\* url the body's url or "https://google.com"; with a receiver attached that
\* one message is what the bus gains; the request is acknowledged with
\* status navigation_sent in the same step, before any session has read or
\* written anything, and it can always complete.
Navigated(body) ==
    [type |-> JStr("navigate"),
     tabId |-> IF "tab_id" \in DOMAIN body THEN body.tab_id ELSE JStr("active"),
     url |-> IF "url" \in DOMAIN body THEN body.url ELSE JStr("https://google.com")]

C16_NavigateDefaults ==
    /\ [][\A body \in NavigateBodies :
             NavigateHandler(body)
                 => /\ sendCalls' = sendCalls + 1
                    /\ Receivers # {} =>
                          /\ tail' = tail + 1
                          /\ Last(buffer') = [pos |-> tail, val |-> Navigated(body)]
                          /\ published' = Append(published,
                                                 [val |-> Navigated(body), subs |-> Receivers])
                    /\ http'.status = 200
                    /\ http'.resp = [status |-> JStr("navigation_sent")]
                    /\ UNCHANGED <<out, next, inLeft, storeVars>>]_vars
    /\ [](postLeft > 0 => \A body \in NavigateBodies : ENABLED NavigateHandler(body))

C16_Witness ==
    /\ http.ep = "navigate"
    /\ http.body = [type |-> JStr("click")]
    /\ http.status = 200
    /\ published # <<>>
    /\ Last(published).val = [type |-> JStr("navigate"), tabId |-> JStr("active"),
                              url |-> JStr("https://google.com")]
    /\ Last(buffer).val = Last(published).val
    /\ \A s \in Sessions : out[s] = <<>>

\* C19: tx.send is called by the inject and navigate handlers only, so every
\* message the bus holds or ever held, and every message written to a
\* client, has type inject or navigate, also when the body posted to
\* /navigate said click; a step in which a session takes a message from its
\* WebSocket, or works on one, sends nothing and leaves the bus as it was.
BusTypes == {JStr("inject"), JStr("navigate")}

C19_PublishersOnly ==
    /\ [](/\ \A i \in DOMAIN published : published[i].val.type \in BusTypes
          /\ \A i \in DOMAIN buffer : buffer[i].val.type \in BusTypes
          /\ \A s \in Sessions : \A i \in DOMAIN out[s] :
                /\ out[s][i].val.type \in BusTypes
                /\ \E j \in DOMAIN published : published[j].val = out[s][i].val)
    /\ [][(sendCalls' # sendCalls \/ buffer' # buffer \/ tail' # tail \/ published' # published)
             => /\ postLeft' = postLeft - 1
                /\ inLeft' = inLeft
                /\ UNCHANGED <<rpc, storeVars>>
                /\ http'.ep \in {"inject", "navigate"}
                /\ (Receivers # {} =>
                       Last(published').val.type = JStr(http'.ep))]_vars
    /\ [][(inLeft' # inLeft \/ rpc' # rpc \/ tabs' # tabs \/ results' # results)
             => UNCHANGED <<buffer, tail, published, sendCalls, out>>]_vars

C19_Witness ==
    /\ http.ep = "navigate"
    /\ "type" \in DOMAIN http.body
    /\ http.body.type = JStr("click")
    /\ published # <<>>
    /\ Last(published).val.type = JStr("navigate")
    /\ results # <<>>
    /\ \E s \in Sessions : out[s] # <<>> /\ Last(out[s]).val = Last(published).val
    /\ \E s \in Sessions : sendSt[s] = "running" /\ out[s] = <<>> /\ next[s] = tail

\* C18: an item of the WebSocket stream that is not a text message (another
\* kind of frame, a read error, the end of the stream) ends recv_task; the
\* session then closes, send_task included; an ended recv_task takes no
\* further item and writes nothing to the store, a closed session is
\* forwarded nothing, and text that does not parse leaves recv_task running.
LoopEnded(s) == recvSt[s] = "finished"

C18_NonTextEndsSession ==
    /\ [][\A s \in Sessions, item \in Frames :
             RecvTaskNext(s, item)
                 => IF item.kind # "text"
                      THEN LoopEnded(s)' /\ UNCHANGED storeVars
                      ELSE (item.text = Garbage
                               => ~LoopEnded(s)' /\ recvSt'[s] = recvSt[s] /\ rpc'[s] = "wait")]_vars
    /\ \A s \in Sessions : LoopEnded(s) ~> (Closed(s) /\ ~Alive(sendSt[s]))
    /\ [][\A s \in Sessions :
             LoopEnded(s)
                 => /\ LoopEnded(s)'
                    /\ \A item \in Frames : ~RecvTaskNext(s, item)
                    /\ tabsLock' # s /\ resultsLock' # s
                    /\ (resultLog' # resultLog => Last(resultLog').by # s)
                    /\ (Closed(s) => out'[s] = out[s] /\ next'[s] = next[s])]_vars

C18_Witness ==
    \E s \in Sessions :
        /\ lastIn.kind = "binary"
        /\ LoopEnded(s)
        /\ Closed(s)
        /\ sendSt[s] = "cancelled"
        /\ out[s] = <<>>
        /\ tail > next[s]

\* C17: an instance whose probe finds the port bound reports the conflict
\* and exits: it never serves and never creates a channel or an AppState,
\* whatever happens to the port afterwards; an instance serves only while it
\* holds the port, so of the instances started on the port at most one ever
\* serves.
Serving == {i \in Instances : startPc[i] = "serving"}
Refused(i) == startPc[i] \in {"conflict", "exit1"}

C17_PortConflict ==
    /\ [](\A i \in Instances :
             probed[i] = "bound" => (Refused(i) /\ ~made[i] /\ listening # i))
    /\ [](\A i \in Serving : listening = i)
    /\ [](Cardinality(Serving) <= 1)
    /\ [][\A i \in Instances :
             /\ (startPc[i] = "probe" /\ listening # Nobody /\ startPc'[i] # "probe")
                   => Refused(i)'
             /\ Refused(i) => (Refused(i)' /\ ~made'[i])
             /\ startPc[i] = "serving" => startPc'[i] = "serving"]_vars

C17_Witness ==
    \E i, j \in Instances :
        /\ startPc[i] = "serving"
        /\ listening = i
        /\ made[i]
        /\ probed[j] = "bound"
        /\ startPc[j] = "exit1"
        /\ ~made[j]

====
